---- MODULE Spec2Model ----
(***************************************************************************)
(* Model of src/dashboard.py: a Streamlit script that, on every ticker     *)
(* submission, runs the four views current(), forecast(), fundamental()    *)
(* and news() in sequence.  An exception that no view catches ends the     *)
(* script run.  The st.cache_* memo of the fundamentals fetchers outlives  *)
(* the script runs.                                                        *)
(***************************************************************************)
EXTENDS Integers, Sequences, FiniteSets, TLC

\* ---------------------------------------------------------------- bounds
MaxRows == 3        \* rows of a price table in the single-run specification
MaxPrice == 2       \* prices are 1..MaxPrice
SessionRows == 1    \* rows of a price table in the session specification

\* ------------------------------------------------------ program constants
TradingDays == 252
Percent == 100
NewsLimit == 10

\* ------------------------------------------------------------- rationals
Abs(x) == IF x < 0 THEN -x ELSE x

RECURSIVE GCD(_, _)
GCD(a, b) == IF b = 0 THEN a ELSE GCD(b, a % b)

\* the fraction n/d in lowest terms, d > 0
Rat(n, d) ==
    LET s == IF d < 0 THEN -1 ELSE 1
        g == GCD(Abs(n), Abs(d))
    IN  [n |-> (s * n) \div g, d |-> (s * d) \div g]

RAdd(a, b) == Rat(a.n * b.d + b.n * a.d, a.d * b.d)
RSub(a, b) == Rat(a.n * b.d - b.n * a.d, a.d * b.d)
RMul(a, b) == Rat(a.n * b.n, a.d * b.d)
RDiv(a, b) == Rat(a.n * b.d, a.d * b.n)
RInt(k) == [n |-> k, d |-> 1]

\* ------------------------------------------------------------ table cells
\* A cell of a DataFrame column: a number, a missing value (NaN / NaT),
\* a non-numeric object, or no cell because the table lacks the column.
Num(r) == [k |-> "num", n |-> r.n, d |-> r.d]
NaN == [k |-> "nan", n |-> 0, d |-> 1]
Str == [k |-> "str", n |-> 0, d |-> 1]
Absent == [k |-> "absent", n |-> 0, d |-> 1]
Stamp == [k |-> "num", n |-> 0, d |-> 1]     \* a valid timestamp

IsNum(c) == c.k = "num"
IsNa(c) == c.k = "nan"
ValOf(c) == [n |-> c.n, d |-> c.d]

PriceCells == {Num(RInt(p)) : p \in 1..MaxPrice} \cup {NaN, Str}
DateCells == {Stamp, NaN}

Columns == {"Date", "Close", "Adj Close"}

\* ---------------------------------------------------------- price tables
\* A table as load_data() returns it: the columns it has (of the three the
\* views look at) and its rows in date order.  A row has one cell per
\* column; a column the table lacks holds Absent.  Where the table has both
\* price columns the adjusted close is the close (no dividend or split in
\* the range) or is missing.
AdjCells(cols, close) ==
    IF "Adj Close" \notin cols THEN {Absent}
    ELSE IF "Close" \in cols THEN {close, NaN}
    ELSE PriceCells

RowsOf(cols) ==
    UNION { { [ds |-> a, close |-> b, adj |-> c] : c \in AdjCells(cols, b) } :
            a \in (IF "Date" \in cols THEN DateCells ELSE {Absent}),
            b \in (IF "Close" \in cols THEN PriceCells ELSE {Absent}) }

\* the table with the columns cols and the rows r
Table(cols, r) == [cols |-> cols, rows |-> r]

NoTable == [cols |-> {}, rows |-> << >>]

Cell(row, col) ==
    IF col = "Date" THEN row.ds
    ELSE IF col = "Close" THEN row.close
    ELSE IF col = "Adj Close" THEN row.adj
    ELSE Absent

\* ------------------------------------------------ floating-point results
\* A float of get_metrics: finite, NaN or +-infinity.  A finite value is
\* c * sqrt(252)^s * sqrt(q)^v with c rational and q the variance of the
\* return series, so that products and quotients stay exact.
FNaN == [k |-> "nan", c |-> RInt(0), s |-> 0, v |-> 0, q |-> RInt(1)]
FInf(sgn) == [k |-> "inf", c |-> RInt(sgn), s |-> 0, v |-> 0, q |-> RInt(1)]
FFin(c, s, v, q) ==
    IF c.n = 0 THEN [k |-> "fin", c |-> RInt(0), s |-> 0, v |-> 0, q |-> RInt(1)]
    ELSE [k |-> "fin", c |-> c, s |-> s, v |-> v,
          q |-> IF v = 0 THEN RInt(1) ELSE q]
FRat(r) == FFin(r, 0, 0, RInt(1))
FZero == FRat(RInt(0))
FIsZero(x) == x.k = "fin" /\ x.c.n = 0
Sgn(x) == IF x.c.n < 0 THEN -1 ELSE 1
Root(x, y) == IF x.v # 0 THEN x.q ELSE y.q

FMul(x, y) ==
    IF x.k = "nan" \/ y.k = "nan" THEN FNaN
    ELSE IF x.k = "inf" \/ y.k = "inf"
         THEN (IF FIsZero(x) \/ FIsZero(y) THEN FNaN ELSE FInf(Sgn(x) * Sgn(y)))
    ELSE FFin(RMul(x.c, y.c), x.s + y.s, x.v + y.v, Root(x, y))

FDiv(x, y) ==
    IF x.k = "nan" \/ y.k = "nan" THEN FNaN
    ELSE IF x.k = "inf"
         THEN (IF y.k = "inf" THEN FNaN ELSE FInf(Sgn(x) * Sgn(y)))
    ELSE IF y.k = "inf" THEN FZero
    ELSE IF FIsZero(y)
         THEN (IF FIsZero(x) THEN FNaN ELSE FInf(Sgn(x)))
    ELSE FFin(RDiv(x.c, y.c), x.s - y.s, x.v - y.v, Root(x, y))

NpSqrt252 == FFin(RInt(1), 1, 0, RInt(1))

RECURSIVE RSum(_)
RSum(xs) == IF xs = << >> THEN RInt(0) ELSE RAdd(Head(xs), RSum(Tail(xs)))

RMean(xs) == RDiv(RSum(xs), RInt(Len(xs)))

\* population variance (ddof = 0): mean of the squared deviations
RVar(xs) ==
    LET m == RMean(xs)
        sq == [i \in 1..Len(xs) |-> RMul(RSub(xs[i], m), RSub(xs[i], m))]
    IN  RMean(sq)

\* Series.mean(): NaN for an empty series
SeriesMean(xs) == IF xs = << >> THEN FNaN ELSE FRat(RMean(xs))

\* np.std(series): population standard deviation, NaN for an empty series
NpStd(xs) ==
    IF xs = << >> THEN FNaN
    ELSE IF RVar(xs).n = 0 THEN FZero
    ELSE FFin(RInt(1), 0, 1, RVar(xs))

\* ------------------------------------------------- data preparation steps
\* the ticker check left out
TickerNeverEmpty(t) == FALSE

\* `if not ticker` (lines 93, 141, 178, 223)
TickerEmpty(t) == t = ""

\* the empty check left out
EmptyIgnored(data) == FALSE

\* data.empty (lines 97, 182)
Empty(data) == Len(data.rows) = 0

\* plot_ticker_data: data["Date"] and data["Close"] raise KeyError when the
\* table lacks the column
PlotRaises(data) == ~ ({"Date", "Close"} \subseteq data.cols)

\* line 104
PriceColCurrent(cols) == IF "Adj Close" \in cols THEN "Adj Close" ELSE "Close"

\* a selection that never falls back to Close
PriceColNoFallback(cols) == IF "Adj Close" \in cols THEN "Adj Close" ELSE "None"

\* lines 186-190: None is modelled as "None"
PriceColForecast(cols) ==
    IF "Close" \in cols THEN "Close"
    ELSE IF "Adj Close" \in cols THEN "Adj Close"
    ELSE "None"

\* line 192
MissingRequired(cols) == PriceColForecast(cols) = "None" \/ "Date" \notin cols

\* line 105: dividing a column that holds a non-numeric object raises
\* TypeError
DivRaises(data, col) ==
    \E i \in 1..Len(data.rows) : Cell(data.rows[i], col).k = "str"

\* line 105: price / price.shift(1) - 1, NaN where either operand is missing
\* (the first row has no previous price)
PctChange(rows, col, i) ==
    IF i = 1 THEN NaN
    ELSE LET cur == Cell(rows[i], col)
             prev == Cell(rows[i - 1], col)
         IN  IF IsNum(cur) /\ IsNum(prev)
             THEN Num(RSub(RDiv(ValOf(cur), ValOf(prev)), RInt(1)))
             ELSE NaN

\* lines 103-105: the copy with its "% Change" column; i is the row label
\* (the RangeIndex that reset_index left, from 0)
WithChange(rows, col) ==
    [j \in 1..Len(rows) |->
        [i |-> j - 1, ds |-> rows[j].ds, close |-> rows[j].close,
         adj |-> rows[j].adj, pct |-> PctChange(rows, col, j)]]

\* line 106: dropna() without a subset drops a row with a missing value in
\* any of its columns (of which Date, Close, Adj Close and % Change are
\* modelled)
RowHasNa(r) == IsNa(r.ds) \/ IsNa(r.close) \/ IsNa(r.adj) \/ IsNa(r.pct)

\* dropna() left out
DropNaKeepsAll(rows) == rows

DropNa(rows) == SelectSeq(rows, LAMBDA r : ~ RowHasNa(r))

Changes(data_copy) == [j \in 1..Len(data_copy) |-> ValOf(data_copy[j].pct)]

\* lines 86-90; the values are those handed to round()
AnnualReturn(xs) == FMul(FMul(SeriesMean(xs), FRat(RInt(TradingDays))), FRat(RInt(Percent)))

StDev(xs) == FMul(NpStd(xs), NpSqrt252)

\* the ratio over the deviation as a fraction, without the factor 100
RiskAdjustedByFraction(annual_return, st_dev) == FDiv(annual_return, st_dev)

RiskAdjusted(annual_return, st_dev) ==
    FDiv(annual_return, FMul(st_dev, FRat(RInt(Percent))))

get_metrics(data_copy) ==
    LET annual_return == AnnualReturn(Changes(data_copy))
        st_dev == StDev(Changes(data_copy))
    IN  [annual_return |-> annual_return, st_dev |-> st_dev,
         risk |-> RiskAdjusted(annual_return, st_dev)]

NoMetrics == [annual_return |-> FNaN, st_dev |-> FNaN, risk |-> FNaN]

\* lines 197-198: the (ds, y) projection, keeping the row label
Project(rows, col) ==
    [j \in 1..Len(rows) |->
        [i |-> j - 1, ds |-> rows[j].ds, y |-> Cell(rows[j], col)]]

\* line 198: the columns of df_train after the rename
RenamedCols == {"ds", "y"}

\* line 200
MissingCols == {c \in {"ds", "y"} : c \notin RenamedCols}

\* line 206
DropNaSubset(df) == SelectSeq(df, LAMBDA r : ~ IsNa(r.ds) /\ ~ IsNa(r.y))

\* line 207: pd.to_numeric(errors="coerce") turns what it cannot parse
\* into NaN
ToNumeric(c) == IF IsNum(c) THEN c ELSE NaN

Coerce(df) == [j \in 1..Len(df) |-> [df[j] EXCEPT !.y = ToNumeric(@)]]

\* the second dropna left out
DropNaYKeepsAll(df) == df

\* line 208
DropNaY(df) == SelectSeq(df, LAMBDA r : ~ IsNa(r.y))

\* lines 206-208
Clean(df) == DropNaY(Coerce(DropNaSubset(df)))

\* ------------------------------------------------------ fundamentals cache
Tickers == {"", "A", "B"}
Fetchers == {"get_balance_sheet", "get_income_statement", "get_cashflow_statement"}

\* what a fetcher returns: None after an empty table, or the statement of
\* the ticker the Fundamentals Source was asked for
NotShown == [k |-> "notshown", of |-> ""]
NoneResult == [k |-> "none", of |-> ""]
Statement(t) == [k |-> "table", of |-> t]

\* st.cache_resource / st.cache_data hash the function and its arguments,
\* leaving out the arguments whose name starts with an underscore; the only
\* argument is _fd, and the global ticker is no argument (lines 111-131)
CacheKey(fn, t) == [fn |-> fn, args |-> << >>]

Cached(c, key) == \E e \in c : e.key = key
Lookup(c, key) == (CHOOSE e \in c : e.key = key).val

SourceOutcomes == {"raise", "empty", "table"}

\* one `x = get_...(fd); st.write(x)` of fundamental() (lines 150-160),
\* on the run state f, with the outcome o the source has if it is asked
FetchStep(f, fn, t, o) ==
    LET key == CacheKey(fn, t) IN
    IF f.raised THEN f
    ELSE IF Cached(f.cache, key)
    THEN [f EXCEPT !.hits = @ + 1,
                   !.shown = [@ EXCEPT ![fn] = Lookup(f.cache, key)]]
    ELSE IF o = "raise"
    THEN [f EXCEPT !.fund = @ + 1, !.raised = TRUE]
    ELSE LET val == IF o = "empty" THEN NoneResult ELSE Statement(t) IN
         [f EXCEPT !.fund = @ + 1,
                   !.cache = @ \cup {[key |-> key, val |-> val]},
                   !.shown = [@ EXCEPT ![fn] = val]]

\* ------------------------------------------------------------------ state
VARIABLES
    ticker,     \* the text input (line 63)
    pc,         \* the view the script run is about to execute
    view,       \* per view: NotRun, NoTicker, Error, Ready or Exception
    msg,        \* per view: the st.warning / st.error it rendered
    pcol,       \* per view: the price_col it selected
    loaded,     \* per view: what the Market Data Source gave load_data()
    data,       \* current(): the table load_data() returned
    data_copy,  \* current(): the table with "% Change", after dropna
    metrics,    \* get_metrics(): the three values it displays
    fcols,      \* forecast(): data.columns
    df_raw,     \* forecast(): df_train before cleaning (lines 197-198)
    handed,     \* forecast(): the df_train passed to train_model
    calls,      \* calls made by this script run
    cache,      \* the st.cache_* entries of the fundamentals fetchers
    shown,      \* fundamental(): what st.write displayed per fetcher
    newsShown   \* news(): number of articles rendered

vars == <<ticker, pc, view, msg, pcol, loaded, data, data_copy, metrics,
          fcols, df_raw, handed, calls, cache, shown, newsShown>>

Views == {"current", "forecast", "fundamental", "news"}

NoCalls == [load |-> 0, metrics |-> 0, train |-> 0, fund |-> 0,
            hits |-> 0, news |-> 0]

\* the values a script run starts from
FreshRun ==
    /\ pc' = "current"
    /\ view' = [v \in Views |-> "NotRun"]
    /\ msg' = [v \in Views |-> ""]
    /\ pcol' = [v \in Views |-> ""]
    /\ loaded' = [v \in Views |-> "none"]
    /\ data' = NoTable
    /\ data_copy' = << >>
    /\ metrics' = NoMetrics
    /\ fcols' = {}
    /\ df_raw' = << >>
    /\ handed' = << >>
    /\ calls' = NoCalls
    /\ shown' = [f \in Fetchers |-> NotShown]
    /\ newsShown' = 0

InitWith(T) ==
    /\ ticker \in T
    /\ pc = "current"
    /\ view = [v \in Views |-> "NotRun"]
    /\ msg = [v \in Views |-> ""]
    /\ pcol = [v \in Views |-> ""]
    /\ loaded = [v \in Views |-> "none"]
    /\ data = NoTable
    /\ data_copy = << >>
    /\ metrics = NoMetrics
    /\ fcols = {}
    /\ df_raw = << >>
    /\ handed = << >>
    /\ calls = NoCalls
    /\ cache = {}
    /\ shown = [f \in Fetchers |-> NotShown]
    /\ newsShown = 0

\* the first script run: the text input is empty
Init == InitWith({""})

\* the user enters a ticker: Streamlit runs the script again (line 63)
Submit(t) ==
    /\ pc \in {"done", "aborted"}
    /\ ticker' = t
    /\ FreshRun
    /\ UNCHANGED cache

\* what the Market Data Source returned: a table without rows, or rows
Got(d) == IF d.rows = << >> THEN "empty" ELSE "rows"

\* --------------------------------------------------------------- current()
\* lines 96-109 on the table d that load_data() returned
CurrentOn(d) ==
    LET col == PriceColCurrent(d.cols)
        copy == DropNa(WithChange(d.rows, col))
        base == [view |-> "Ready", msg |-> "", pcol |-> "",
                 data_copy |-> << >>, metrics |-> NoMetrics, nmetrics |-> 0,
                 next |-> "forecast"]
    IN  IF Empty(d)
        THEN [base EXCEPT !.view = "Error", !.msg = "Invalid Ticker"]
        ELSE IF PlotRaises(d)
        THEN [base EXCEPT !.view = "Exception", !.next = "aborted"]
        ELSE IF DivRaises(d, col)
        THEN [base EXCEPT !.view = "Exception", !.pcol = col,
                          !.next = "aborted"]
        ELSE [base EXCEPT !.pcol = col, !.data_copy = copy,
                          !.metrics = get_metrics(copy), !.nmetrics = 1]

CurrentStep(d) ==
    \E r \in {CurrentOn(d)} :
        /\ data' = d
        /\ view' = [view EXCEPT !["current"] = r.view]
        /\ msg' = [msg EXCEPT !["current"] = r.msg]
        /\ pcol' = [pcol EXCEPT !["current"] = r.pcol]
        /\ loaded' = [loaded EXCEPT !["current"] = Got(d)]
        /\ data_copy' = r.data_copy
        /\ metrics' = r.metrics
        /\ calls' = [calls EXCEPT !.load = @ + 1, !.metrics = @ + r.nmetrics]
        /\ pc' = r.next

\* n bounds the rows of the table the Market Data Source returns
Current(n) ==
    /\ pc = "current"
    /\ UNCHANGED <<ticker, fcols, df_raw, handed, cache, shown, newsShown>>
    /\ \/ /\ TickerEmpty(ticker)
          /\ view' = [view EXCEPT !["current"] = "NoTicker"]
          /\ msg' = [msg EXCEPT !["current"] = "Stock Ticker Empty"]
          /\ pc' = "forecast"
          /\ UNCHANGED <<pcol, loaded, data, data_copy, metrics, calls>>
       \/ /\ ~ TickerEmpty(ticker)
          /\ view' = [view EXCEPT !["current"] = "Exception"]
          /\ loaded' = [loaded EXCEPT !["current"] = "raised"]
          /\ calls' = [calls EXCEPT !.load = @ + 1]
          /\ pc' = "aborted"
          /\ UNCHANGED <<msg, pcol, data, data_copy, metrics>>
       \/ /\ ~ TickerEmpty(ticker)
          /\ \E c \in SUBSET Columns, m \in 0..n :
                \E r \in [1..m -> RowsOf(c)] : CurrentStep(Table(c, r))

\* -------------------------------------------------------------- forecast()
\* line 210 is passed: train_model is called on the table d
Trains(d) ==
    /\ ~ Empty(d)
    /\ ~ MissingRequired(d.cols)
    /\ Clean(Project(d.rows, PriceColForecast(d.cols))) # << >>

\* lines 181-220 on the table d that load_data() returned; fit tells whether
\* train_model returns or raises
ForecastOn(d, fit) ==
    LET col == PriceColForecast(d.cols)
        raw == Project(d.rows, col)
        df_train == Clean(raw)
        base == [view |-> "Ready", msg |-> "", pcol |-> "",
                 df_raw |-> << >>, handed |-> << >>, ntrain |-> 0,
                 next |-> "fundamental"]
    IN  IF Empty(d)
        THEN [base EXCEPT !.view = "Error", !.msg = "Invalid Ticker"]
        ELSE IF MissingRequired(d.cols)
        THEN [base EXCEPT !.view = "Error",
                  !.msg = "Data does not contain required columns for forecasting."]
        ELSE IF MissingCols # {}
        THEN [base EXCEPT !.view = "Error", !.pcol = col, !.df_raw = raw,
                  !.msg = "Missing columns after renaming"]
        ELSE IF df_train = << >>
        THEN [base EXCEPT !.view = "Error", !.pcol = col, !.df_raw = raw,
                  !.msg = "Prepared data for Prophet is empty after cleaning."]
        ELSE IF ~ fit
        THEN [base EXCEPT !.view = "Exception", !.pcol = col, !.df_raw = raw,
                  !.handed = df_train, !.ntrain = 1, !.next = "aborted"]
        ELSE [base EXCEPT !.pcol = col, !.df_raw = raw, !.handed = df_train,
                  !.ntrain = 1]

ForecastStep(d) ==
    \E fit \in (IF Trains(d) THEN BOOLEAN ELSE {TRUE}) :
    \E r \in {ForecastOn(d, fit)} :
        /\ fcols' = d.cols
        /\ view' = [view EXCEPT !["forecast"] = r.view]
        /\ msg' = [msg EXCEPT !["forecast"] = r.msg]
        /\ pcol' = [pcol EXCEPT !["forecast"] = r.pcol]
        /\ loaded' = [loaded EXCEPT !["forecast"] = Got(d)]
        /\ df_raw' = r.df_raw
        /\ handed' = r.handed
        /\ calls' = [calls EXCEPT !.load = @ + 1, !.train = @ + r.ntrain]
        /\ pc' = r.next

\* The second load_data() of a script run: the Market Data Source answers
\* with the table it gave current() a moment ago, or with an empty table
\* after a failed download; if current() got an empty table, with any table
\* of the same columns.
Forecast(n) ==
    /\ pc = "forecast"
    /\ UNCHANGED <<ticker, cache, shown, newsShown>>
    /\ data' = NoTable
    /\ data_copy' = << >>
    /\ metrics' = NoMetrics
    /\ \/ /\ TickerEmpty(ticker)
          /\ view' = [view EXCEPT !["forecast"] = "NoTicker"]
          /\ msg' = [msg EXCEPT !["forecast"] = "Stock Ticker Empty"]
          /\ pc' = "fundamental"
          /\ UNCHANGED <<pcol, loaded, fcols, df_raw, handed, calls>>
       \/ /\ ~ TickerEmpty(ticker)
          /\ view' = [view EXCEPT !["forecast"] = "Exception"]
          /\ loaded' = [loaded EXCEPT !["forecast"] = "raised"]
          /\ calls' = [calls EXCEPT !.load = @ + 1]
          /\ pc' = "aborted"
          /\ UNCHANGED <<msg, pcol, fcols, df_raw, handed>>
       \/ /\ ~ TickerEmpty(ticker)
          /\ loaded["current"] = "rows"
          /\ \E d \in {data, Table(data.cols, << >>)} :
                ForecastStep(d)
       \/ /\ ~ TickerEmpty(ticker)
          /\ loaded["current"] # "rows"
          /\ \E m \in 0..n :
                \E r \in [1..m -> RowsOf(data.cols)] :
                    ForecastStep(Table(data.cols, r))

\* ----------------------------------------------------------- fundamental()
\* lines 144-160: key tells whether ALPHAVANTAGE_KEY is set (FundamentalData
\* raises without a key); o gives, per fetcher, what the source does if asked
FundamentalOn(key, o) ==
    LET f0 == [cache |-> cache, shown |-> shown, fund |-> 0, hits |-> 0,
               raised |-> ~ key]
        f1 == FetchStep(f0, "get_balance_sheet", ticker, o[1])
        f2 == FetchStep(f1, "get_income_statement", ticker, o[2])
        f3 == FetchStep(f2, "get_cashflow_statement", ticker, o[3])
    IN  f3

Fundamental ==
    /\ pc = "fundamental"
    /\ UNCHANGED <<ticker, pcol, loaded, data, data_copy, metrics, newsShown>>
    /\ fcols' = {}
    /\ df_raw' = << >>
    /\ handed' = << >>
    /\ \/ /\ TickerEmpty(ticker)
          /\ view' = [view EXCEPT !["fundamental"] = "NoTicker"]
          /\ msg' = [msg EXCEPT !["fundamental"] = "Stock Ticker Empty"]
          /\ pc' = "news"
          /\ UNCHANGED <<calls, cache, shown>>
       \/ /\ ~ TickerEmpty(ticker)
          /\ \E key \in BOOLEAN, o \in [1..3 -> SourceOutcomes] :
             \E f \in {FundamentalOn(key, o)} :
                LET none == \E fn \in Fetchers : f.shown[fn] = NoneResult IN
                /\ cache' = f.cache
                /\ shown' = f.shown
                /\ calls' = [calls EXCEPT !.fund = @ + f.fund,
                                          !.hits = @ + f.hits]
                /\ view' = [view EXCEPT !["fundamental"] =
                              IF f.raised THEN "Exception"
                              ELSE IF none THEN "Error" ELSE "Ready"]
                /\ msg' = [msg EXCEPT !["fundamental"] =
                              IF ~ f.raised /\ none THEN "Invalid Ticker" ELSE ""]
                /\ pc' = IF f.raised THEN "aborted" ELSE "news"

\* ------------------------------------------------------------------ news()
Min(a, b) == IF a < b THEN a ELSE b

\* how many articles read_rss() may return
ArticleCounts == {0, 1, NewsLimit, NewsLimit + 1}

\* lines 226-238: n is the number of articles read_rss() returned
News ==
    /\ pc = "news"
    /\ UNCHANGED <<ticker, pcol, loaded, data, data_copy, metrics, fcols,
                   df_raw, handed, cache, shown>>
    /\ \/ /\ TickerEmpty(ticker)
          /\ view' = [view EXCEPT !["news"] = "NoTicker"]
          /\ msg' = [msg EXCEPT !["news"] = "Stock Ticker Empty"]
          /\ pc' = "done"
          /\ UNCHANGED <<calls, newsShown>>
       \/ /\ ~ TickerEmpty(ticker)
          /\ view' = [view EXCEPT !["news"] = "Exception"]
          /\ calls' = [calls EXCEPT !.news = @ + 1]
          /\ pc' = "aborted"
          /\ UNCHANGED <<msg, newsShown>>
       \/ /\ ~ TickerEmpty(ticker)
          /\ \E n \in ArticleCounts :
                /\ newsShown' = Min(NewsLimit, n)
                /\ view' = [view EXCEPT !["news"] = "Ready"]
                /\ calls' = [calls EXCEPT !.news = @ + 1]
                /\ pc' = "done"
                /\ UNCHANGED msg

\* -------------------------------------------------------- specifications
\* the session: script runs over the tickers the user enters, one after
\* the other, sharing the cache
Next ==
    \/ \E t \in Tickers : Submit(t)
    \/ Current(SessionRows)
    \/ Forecast(SessionRows)
    \/ Fundamental
    \/ News

Spec == Init /\ [][Next]_vars

\* one script run of a fresh process, over every price table of up to
\* MaxRows rows
InitRun == InitWith({"", "A"})

NextRun ==
    \/ Current(MaxRows)
    \/ Forecast(MaxRows)
    \/ Fundamental
    \/ News

SpecRun == InitRun /\ [][NextRun]_vars

\* ------------------------------------------------------------- properties
CurrentReturned == view["current"] # "NotRun" /\ view["forecast"] = "NotRun"
ForecastReturned == view["forecast"] # "NotRun" /\ view["fundamental"] = "NotRun"

\* no cell of the table is missing
Complete(d) ==
    \A j \in 1..Len(d.rows) :
        ~ IsNa(d.rows[j].ds) /\ ~ IsNa(d.rows[j].close) /\ ~ IsNa(d.rows[j].adj)

\* the returns table has one row per original index 1..n-1, holding
\* price[i]/price[i-1] - 1 of the selected column
ReturnsOfAllButFirst ==
    /\ Len(data_copy) = Len(data.rows) - 1
    /\ \A j \in 1..Len(data_copy) :
          LET r == data_copy[j]
              cur == Cell(data.rows[j + 1], pcol["current"])
              prev == Cell(data.rows[j], pcol["current"])
          IN  /\ r.i = j
              /\ IsNum(r.pct) /\ IsNum(cur) /\ IsNum(prev)
              /\ r.pct.n * prev.n * cur.d = (cur.n * prev.d - prev.n * cur.d) * r.pct.d

\* C1 as stated: for every non-empty price table of length n that passes
\* the empty check, the returns table built by current() has exactly n-1
\* rows, the row of original index i holding price[i]/price[i-1] - 1; only
\* the first row is dropped.
C1_Original ==
    (CurrentReturned /\ view["current"] = "Ready") => ReturnsOfAllButFirst

\* C1 amended: the same for every non-empty price table in which no cell of
\* any column is missing; a row with a missing cell is dropped as well, and
\* so is the row after a missing price.
C1_ReturnsOfCompleteTable ==
    (CurrentReturned /\ view["current"] = "Ready" /\ Complete(data))
        => ReturnsOfAllButFirst

C1_Witness ==
    /\ CurrentReturned /\ view["current"] = "Ready" /\ Complete(data)
    /\ Len(data.rows) = 3 /\ Len(data_copy) = 2
    /\ data_copy[1].pct # data_copy[2].pct

\* C2: an empty table for a non-empty ticker ends the Overview view in Error
\* "Invalid Ticker" with get_metrics never called in the run, and ends the
\* Forecast view in Error with train_model never called.
C2_EmptyTableIsError ==
    /\ loaded["current"] = "empty" =>
          /\ view["current"] = "Error" /\ msg["current"] = "Invalid Ticker"
          /\ calls.metrics = 0
    /\ loaded["forecast"] = "empty" =>
          /\ view["forecast"] = "Error" /\ msg["forecast"] = "Invalid Ticker"
          /\ calls.train = 0

C2_Witness ==
    /\ ticker # "" /\ pc = "fundamental"
    /\ loaded["current"] = "empty" /\ loaded["forecast"] = "empty"

\* a row of the forecast input that cleaning has to remove
Unusable(r) == ~ IsNum(r.ds) \/ ~ IsNum(r.y)

\* C3: the table handed to train_model is never empty and has no row with a
\* missing timestamp or a missing or non-numeric value; if cleaning leaves
\* no row the Forecast view ends in Error "empty after cleaning" and
\* train_model is not called.
C3_CleanForecastInput ==
    /\ (ForecastReturned /\ calls.train > 0) =>
          /\ handed # << >>
          /\ \A j \in 1..Len(handed) : ~ Unusable(handed[j])
    /\ (ForecastReturned /\ pcol["forecast"] # ""
          /\ \A j \in 1..Len(df_raw) : Unusable(df_raw[j])) =>
          /\ view["forecast"] = "Error"
          /\ msg["forecast"] = "Prepared data for Prophet is empty after cleaning."
          /\ calls.train = 0

C3_Witness ==
    /\ ForecastReturned /\ calls.train = 1 /\ view["forecast"] = "Ready"
    /\ Len(handed) = 1 /\ Len(df_raw) = 3
    /\ \E j \in 1..3 : df_raw[j].y = Str
    /\ \E j \in 1..3 : IsNa(df_raw[j].ds)

\* C4: a price table of exactly one bar ends the Overview view in Error
\* (empty after cleaning) and no metrics are computed from the empty return
\* series.
C4_SingleBarIsError ==
    (CurrentReturned /\ loaded["current"] = "rows" /\ Len(data.rows) = 1
        /\ view["current"] # "Exception")
        => (view["current"] = "Error" /\ calls.metrics = 0)

\* the return series has two different values
Deviates == \E i, j \in 1..Len(data_copy) : data_copy[i].pct # data_copy[j].pct

MetricsShown == CurrentReturned /\ calls.metrics = 1

TheMean == RMean(Changes(data_copy))

C6_EveryViewEnds ==
    pc \in {"done", "aborted"} =>
        \A v \in Views : view[v] \in {"NoTicker", "Error", "Ready"}

\* C7: the statements the Fundamentals view shows are those fetched for the
\* ticker entered now; a result cached for another ticker is never shown.
C7_ShownForEnteredTicker ==
    \A fn \in Fetchers : shown[fn].k = "table" => shown[fn].of = ticker

HasCloseOnly(cols) ==
    "Date" \in cols /\ "Close" \in cols /\ "Adj Close" \notin cols

\* C8 as stated: on a non-empty price table with Close and no Adj Close both
\* views select Close and proceed without any error outcome.
C8_Original ==
    /\ (CurrentReturned /\ loaded["current"] = "rows" /\ HasCloseOnly(data.cols))
          => (pcol["current"] = "Close" /\ view["current"] # "Error")
    /\ (ForecastReturned /\ loaded["forecast"] = "rows" /\ HasCloseOnly(fcols))
          => (pcol["forecast"] = "Close" /\ view["forecast"] # "Error")

\* C8 amended: on such a table both views select Close and neither reports
\* missing columns; the Overview view has no error outcome, and the only
\* error outcome of the Forecast view is "empty after cleaning", when no row
\* has both a timestamp and a numeric close.
C8_FallsBackToClose ==
    /\ (CurrentReturned /\ loaded["current"] = "rows" /\ HasCloseOnly(data.cols))
          => (pcol["current"] = "Close" /\ view["current"] # "Error")
    /\ (ForecastReturned /\ loaded["forecast"] = "rows" /\ HasCloseOnly(fcols))
          => /\ pcol["forecast"] = "Close"
             /\ view["forecast"] = "Error" =>
                   /\ msg["forecast"] = "Prepared data for Prophet is empty after cleaning."
                   /\ \A j \in 1..Len(df_raw) : Unusable(df_raw[j])

C8_Witness ==
    /\ ForecastReturned /\ loaded["forecast"] = "rows" /\ HasCloseOnly(fcols)
    /\ view["current"] = "Ready" /\ pcol["current"] = "Close"
    /\ view["forecast"] = "Ready" /\ pcol["forecast"] = "Close"
    /\ Len(handed) = 3

\* C9: with zero standard deviation the Risk Adjusted Return is a sentinel,
\* not-a-number or an error outcome of the view.
C9_ZeroDeviationSentinel ==
    (MetricsShown /\ Len(data_copy) > 0 /\ FIsZero(metrics.st_dev))
        => (metrics.risk.k = "nan" \/ view["current"] = "Error")

\* C10: with an empty ticker every view ends in NoTicker with its warning,
\* no source and no adapter is called and no cached result is read.
C10_EmptyTickerDoesNothing ==
    ticker = "" =>
        /\ \A v \in Views :
              \/ view[v] = "NotRun" /\ msg[v] = ""
              \/ view[v] = "NoTicker" /\ msg[v] = "Stock Ticker Empty"
        /\ pc = "done" => \A v \in Views : view[v] = "NoTicker"
        /\ pc # "aborted"
        /\ calls = NoCalls
        /\ \A fn \in Fetchers : shown[fn] = NotShown

C10_Witness ==
    /\ ticker = "" /\ pc = "done"
    /\ \A v \in Views : view[v] = "NoTicker"
    /\ Cardinality(cache) = 3

====
